---- MODULE Spec2Model ----
(***************************************************************************)
(* Model of fuzzer/avc_dec_fuzzer.cpp: the driver that takes one byte      *)
(* buffer, derives a decoder configuration from it, and drives the libavc  *)
(* decoder (reached only through ivd_api_function) through create, set     *)
(* cores, header decode, frame decode with resolution change, and delete.  *)
(*                                                                         *)
(* The decoder is an opaque collaborator: every call returns, and what it  *)
(* returns is chosen nondeterministically from small sets.  The driver is  *)
(* sequential; pc is its position in LLVMFuzzerTestOneInput and in the     *)
(* member functions it calls.  One action is one stretch of driver code    *)
(* holding at most one call of ivd_api_function.                           *)
(***************************************************************************)
EXTENDS Integers, Naturals, Sequences, FiniteSets, TLC

VARIABLES
    data,           \* the input buffer, a sequence of bytes (index i is data[i+1])
    ofs,            \* `data` of LLVMFuzzerTestOneInput minus the buffer start
    size,           \* `size` of LLVMFuzzerTestOneInput: the length that remains
    hdrOfs,         \* `data` of decodeHeader, its own copy, minus the buffer start
    hdrSize,        \* `size` of decodeHeader, its own copy
    pc,             \* position of the driver
    codecObj,       \* the Codec object: "none", "live" (after new), "deleted"
    mColorFormat,   \* Codec::mColorFormat
    mNumCores,      \* Codec::mNumCores
    mCodec,         \* Codec::mCodec: NULL or the handle
    mWidth,         \* Codec::mWidth
    mHeight,        \* Codec::mHeight
    mOutBufHandle,  \* Codec::mOutBufHandle: u4_num_bufs, u4_min_out_buf_size, pu1_bufs
    heap,           \* the buffers memalign returned that are not freed yet
    codecMem,       \* those of heap the decoder got from iv_aligned_malloc
    nAlloc,         \* number of allocFrame calls so far
    dec_ip,         \* the decode input struct of the running decode iteration
    dec_op,         \* the decode output struct of the running decode iteration
    mode,           \* e_vid_dec_mode of the last setParams call
    lastCall,       \* command of the last ivd_api_function call
    nCalls,         \* number of ivd_api_function calls so far
    nCreate,        \* number of IVD_CMD_CREATE calls so far
    nDelete,        \* number of IVD_CMD_DELETE calls so far
    createRet,      \* status the create call returned ("none" before it)
    readIdx,        \* indices of data read by the configuration code
    nSubmit,        \* decode calls issued in the running frame iteration
    nReset,         \* reset calls issued in the running frame iteration
    sawZero,        \* some decode call of the running iteration consumed 0 bytes
    dblFree,        \* free() was called on a buffer that was not allocated
    run,            \* number of the harness invocation, from 1
    nHeaderIter,    \* iterations of the header loop started so far
    nFrameIter,     \* iterations of the frame loop started so far
    lastResp        \* what the decoder wrote in answer to the latest decode call

vars == <<data, ofs, size, pc, codecObj, mColorFormat, mNumCores, mCodec,
          mWidth, mHeight, mOutBufHandle, heap, nAlloc, dec_ip, dec_op, mode,
          lastCall, nCalls, nCreate, nDelete, createRet, readIdx,
          nSubmit, nReset, sawZero, dblFree, run,
          nHeaderIter, nFrameIter, lastResp, hdrOfs, hdrSize,
          codecMem>>

----------------------------------------------------------------------------
(* Bounds of the model *)

\* longest input of a session
MaxLen == 4
\* longest input of the configuration selection taken alone
MaxSelectLen == 9
\* a bytes-consumed report larger than any input of the model
BigConsumed == 1000000
\* number of times the harness is entered with the input
MaxRuns == 2

(* Program constants *)

OFFSET_COLOR_FORMAT == 6
OFFSET_NUM_CORES == OFFSET_COLOR_FORMAT + 1
kMaxCores == 4
MAX_DIM == 10240
DEFAULT_WIDTH == 1920
DEFAULT_HEIGHT == 1088
MIN_ADVANCE == 4
IVD_RES_CHANGED == 42
ERR_MASK == 256
NULL == 0
HANDLE == 1

supportedColorFormats ==
    <<"IV_YUV_420P", "IV_YUV_420SP_UV", "IV_YUV_420SP_VU",
      "IV_YUV_422ILE", "IV_RGB_565", "IV_RGBA_8888">>

kSupportedColorFormats == Len(supportedColorFormats)

Min(a, b) == IF a < b THEN a ELSE b

----------------------------------------------------------------------------
(* Inputs and collaborator responses of the model *)

\* byte at an index the configuration code does not read: distinct per index
Filler(i) == (i * 37 + 11) % 256

\* values tried at the indices the configuration code reads: they select
\* IV_YUV_420SP_UV (two planes) and IV_RGBA_8888 (one plane), with two cores
ByteVals == {1, 5}

\* an input of length n: byte a at the index of the colour format selection,
\* byte b at the index of the core count selection (a where the two indices
\* coincide), Filler elsewhere
InputOf(n, a, b) ==
    [i \in 1..n |->
        IF i - 1 = Min(OFFSET_COLOR_FORMAT, n - 1) THEN a
        ELSE IF i - 1 = Min(OFFSET_NUM_CORES, n - 1) THEN b
        ELSE Filler(i - 1)]

InputsOver(vals, maxLen) ==
    {InputOf(n, a, b) : n \in 0..maxLen, a \in vals, b \in vals}

\* the one-byte input of value 0x00: IV_YUV_420P (three planes), one core
ZeroByteInput == <<0>>

Inputs == InputsOver(ByteVals, MaxLen) \cup {ZeroByteInput}

\* the inputs of the configuration selection taken alone: more byte values,
\* lengths on both sides of the two offsets, and the all-zero inputs
SelectByteVals == {0, 1, 2, 3, 4, 5, 6, 7, 11, 255}

SelectInputs ==
    InputsOver(SelectByteVals, MaxSelectLen)
        \cup {[i \in 1..n |-> 0] : n \in 1..MaxSelectLen}

\* u4_num_bytes_consumed reported by a decode call
ConsumedVals == {0, 3, BigConsumed}
\* u4_error_code: no error, resolution change, resolution change with high bits
ErrVals == {0, IVD_RES_CHANGED, IVD_RES_CHANGED + ERR_MASK}
\* (u4_pic_wd, u4_pic_ht) reported by a decode call
GeomVals == {<<0, 0>>, <<16, 0>>, <<16, 16>>, <<MAX_DIM + 1, MAX_DIM>>}

DecOps == { [u4_num_bytes_consumed |-> b, u4_error_code |-> e,
             u4_pic_wd |-> g[1], u4_pic_ht |-> g[2]] :
            b \in ConsumedVals, e \in ErrVals, g \in GeomVals }

\* memset(&dec_op, 0, sizeof(dec_op))
ZeroOp == [u4_num_bytes_consumed |-> 0, u4_error_code |-> 0,
           u4_pic_wd |-> 0, u4_pic_ht |-> 0]

\* memset(&mOutBufHandle, 0, sizeof(mOutBufHandle)); the arrays are kept up to
\* u4_num_bufs, every later entry is zero
ZeroBuf == [u4_num_bufs |-> 0, u4_min_out_buf_size |-> <<>>, pu1_bufs |-> <<>>]

\* memset(&dec_ip, 0, sizeof(dec_ip))
ZeroIp == [ofs |-> 0, u4_num_Bytes |-> 0, s_out_buffer |-> ZeroBuf]

----------------------------------------------------------------------------
(* Pure parts of the driver *)

\* ClampOfs that always takes the last byte
ClampOfsLast(offset, n) == n - 1

\* std::min(OFFSET, size - 1)
ClampOfs(offset, n) == Min(offset, n - 1)

\* data[colorFormatOfst] % kSupportedColorFormats, then the table lookup
SelectColorFormat(d) ==
    supportedColorFormats[
        (d[ClampOfs(OFFSET_COLOR_FORMAT, Len(d)) + 1] % kSupportedColorFormats) + 1]

\* (data[numCoresOfst] % kMaxCores) + 1
SelectNumCores(d) ==
    (d[ClampOfs(OFFSET_NUM_CORES, Len(d)) + 1] % kMaxCores) + 1

\* the indices the two selections read
SelectReads(d) ==
    {ClampOfs(OFFSET_COLOR_FORMAT, Len(d)), ClampOfs(OFFSET_NUM_CORES, Len(d))}

\* Advance without the substitution of 4 for a report of 0 bytes
AdvanceNoSubstitute(consumed, remaining) == Min(remaining, consumed)

\* Advance without the clamp to the remaining length
AdvanceNoClamp(consumed, remaining) ==
    IF consumed = 0 THEN MIN_ADVANCE ELSE consumed

\* if (!bytes_consumed) bytes_consumed = 4; bytes_consumed = std::min(size, bytes_consumed)
Advance(consumed, remaining) ==
    Min(remaining, IF consumed = 0 THEN MIN_ADVANCE ELSE consumed)

\* Clamp that lets every value through
ClampNone(v) == v

\* std::min(dec_op.u4_pic_wd, (UWORD32)10240)
Clamp(v) == Min(v, MAX_DIM)

\* IsResChanged comparing the whole error code, without the mask
IsResChangedNoMask(err) == err = IVD_RES_CHANGED

\* IVD_RES_CHANGED == (dec_op.u4_error_code & 0xFF)
IsResChanged(err) == (err % ERR_MASK) = IVD_RES_CHANGED

\* GeomDiffers looking at the width alone
GeomDiffersWidthOnly(w, h, op) == w # op.u4_pic_wd

\* mWidth != dec_op.u4_pic_wd || mHeight != dec_op.u4_pic_ht
GeomDiffers(w, h, op) == w # op.u4_pic_wd \/ h # op.u4_pic_ht

\* the header loop test leaving the last byte out
HeaderLoopCondEarly(n) == n > 1

\* while (size > 0) of decodeHeader
HeaderLoopCond(n) == n > 0

\* while (size > 0) of LLVMFuzzerTestOneInput
FrameLoopCond(n) == n > 0

\* uint32_t, the type of mWidth, mHeight and of their products, as the pair
\* <<high, low>> of its halves of 16 bits
HALF == 65536
BYTE == 256

\* the uint32_t of value n
ToU32(n) == <<(n \div HALF) % HALF, n % HALF>>

\* a uint32_t widened to size_t, the type of sizes[]
FromU32(x) == x[1] * HALF + x[2]

\* the product of two halves, itself of 32 bits, as <<high, low>>
MulHalves(x, y) ==
    LET t1 == x * (y % BYTE)
        t2 == x * (y \div BYTE)
        low == (t2 % BYTE) * BYTE + t1
    IN  <<(t2 \div BYTE) + (low \div HALF), low % HALF>>

\* the product in arithmetic of 16 bits
MulU16(a, b) == <<0, MulHalves(a[2], b[2])[2]>>

\* a * b of two uint32_t: the product modulo 2^32
MulU32(a, b) ==
    LET p == MulHalves(a[2], b[2])
    IN  <<(p[1] + MulHalves(a[1], b[2])[2] + MulHalves(a[2], b[1])[2]) % HALF,
          p[2]>>

\* a >> k of a uint32_t, k below 16
ShrU32(a, k) ==
    LET d == 2 ^ k
    IN  <<a[1] \div d, (a[2] \div d) + (a[1] % d) * (HALF \div d)>>

\* the switch with the chroma planes of IV_YUV_420P shifted by 1
AllocSizesHalfChroma(fmt, w, h) ==
    LET Sizes(wh) ==
          CASE fmt \in {"IV_YUV_420SP_UV", "IV_YUV_420SP_VU"} ->
                  <<FromU32(wh), FromU32(ShrU32(wh, 1))>>
            [] fmt = "IV_YUV_422ILE" -> <<FromU32(MulU32(wh, ToU32(2)))>>
            [] fmt = "IV_RGB_565" -> <<FromU32(MulU32(wh, ToU32(2)))>>
            [] fmt = "IV_RGBA_8888" -> <<FromU32(MulU32(wh, ToU32(4)))>>
            [] OTHER -> <<FromU32(wh), FromU32(ShrU32(wh, 1)),
                          FromU32(ShrU32(wh, 1))>>
    IN  CHOOSE s \in {Sizes(wh) : wh \in {MulU32(ToU32(w), ToU32(h))}} : TRUE

\* the switch of allocFrame: sizes[] up to num_bufs, each computed in
\* uint32_t and widened; wh is mWidth * mHeight, computed once
AllocSizes(fmt, w, h) ==
    LET Sizes(wh) ==
          CASE fmt \in {"IV_YUV_420SP_UV", "IV_YUV_420SP_VU"} ->
                  <<FromU32(wh), FromU32(ShrU32(wh, 1))>>
            [] fmt = "IV_YUV_422ILE" -> <<FromU32(MulU32(wh, ToU32(2)))>>
            [] fmt = "IV_RGB_565" -> <<FromU32(MulU32(wh, ToU32(2)))>>
            [] fmt = "IV_RGBA_8888" -> <<FromU32(MulU32(wh, ToU32(4)))>>
            [] OTHER -> <<FromU32(wh), FromU32(ShrU32(wh, 2)),
                          FromU32(ShrU32(wh, 2))>>
    IN  CHOOSE s \in {Sizes(wh) : wh \in {MulU32(ToU32(w), ToU32(h))}} : TRUE

\* the non-null entries of pu1_bufs
LivePtrs(h) == {h.pu1_bufs[i] : i \in 1..Len(h.pu1_bufs)} \ {NULL}

\* freeFrame that frees nothing
FreedHeapNone(hp, h) == hp

\* freeFrame: free every non-null buffer and null its entry
FreedHandle(h) == [h EXCEPT !.pu1_bufs = [i \in 1..Len(h.pu1_bufs) |-> NULL]]
FreedHeap(hp, h) == hp \ LivePtrs(h)

\* free() of a buffer that is not allocated: a double free
BadFree(hp, h) == ~(LivePtrs(h) \subseteq hp)

\* memalign: a buffer not in use, or NULL when the allocation fails
FreshPtr(hp) == CHOOSE p \in 1..(Cardinality(hp) + 1) : p \notin hp

RECURSIVE AllocBufs(_, _, _)
\* the loop of allocFrame over the planes; ok[i] tells whether memalign i succeeds.
\* Gives <<pu1_bufs, heap>>
AllocBufs(i, ok, hp) ==
    IF i > Len(ok) THEN <<(<<>>), hp>>
    ELSE LET p == IF ok[i] THEN FreshPtr(hp) ELSE NULL
             rest == AllocBufs(i + 1, ok, IF ok[i] THEN hp \cup {p} ELSE hp)
         IN  <<(<<p>>) \o rest[1], rest[2]>>

\* allocFrame as a whole: <<mOutBufHandle, heap>> after it
AllocFrame(fmt, w, h, old, hp, ok) ==
    LET sizes == AllocSizes(fmt, w, h)
        got == AllocBufs(1, ok, FreedHeap(hp, old))
    IN  <<[u4_num_bufs |-> Len(sizes), u4_min_out_buf_size |-> sizes,
           pu1_bufs |-> got[1]],
          got[2]>>

\* the outcomes of the memalign calls of one allocFrame: each of them
\* succeeds or fails
AllocOutcomes(fmt) == [1..Len(AllocSizes(fmt, 0, 0)) -> BOOLEAN]

\* numbers of calls of pf_aligned_alloc the decoder makes while it serves the
\* create call
CodecAllocs == {1}

\* the outcomes of those calls: each memalign succeeds or fails
CodecAllocOutcomes == UNION {[1..k -> BOOLEAN] : k \in CodecAllocs}

\* iv_aligned_malloc: return memalign(alignment, size), a buffer not in use
\* when ok, NULL with nothing allocated when the allocation fails
IvAlignedMalloc(hp, ok) == IF ok THEN FreshPtr(hp) ELSE NULL

RECURSIVE IvAlignedMallocs(_, _, _)
\* the pointers that the calls i, i + 1, ... of iv_aligned_malloc return, in a
\* row, ok[j] telling whether the memalign of call j succeeds
IvAlignedMallocs(i, ok, hp) ==
    IF i > Len(ok) THEN <<>>
    ELSE LET p == IvAlignedMalloc(hp, ok[i])
         IN  <<p>> \o IvAlignedMallocs(i + 1, ok, IF ok[i] THEN hp \cup {p} ELSE hp)

\* the buffers among the pointers ptrs
Buffers(ptrs) == {ptrs[i] : i \in 1..Len(ptrs)} \ {NULL}

\* iv_aligned_free: free(buf), for each buffer of bufs
IvAlignedFree(hp, bufs) == hp \ bufs

----------------------------------------------------------------------------
(* The state after the harness is entered with some input *)

InitOn(inputs) ==
    /\ data \in inputs
    /\ ofs = 0
    /\ size = Len(data)
    /\ hdrOfs = 0
    /\ hdrSize = 0
    /\ pc = "start"
    /\ codecObj = "none"
    /\ mColorFormat = "none"
    /\ mNumCores = 0
    /\ mCodec = NULL
    /\ mWidth = 0
    /\ mHeight = 0
    /\ mOutBufHandle = ZeroBuf
    /\ heap = {}
    /\ codecMem = {}
    /\ nAlloc = 0
    /\ dec_ip = ZeroIp
    /\ dec_op = ZeroOp
    /\ lastResp = ZeroOp
    /\ mode = "NONE"
    /\ lastCall = "NONE"
    /\ nCalls = 0
    /\ nCreate = 0
    /\ nDelete = 0
    /\ createRet = "none"
    /\ readIdx = {}
    /\ nSubmit = 0
    /\ nReset = 0
    /\ sawZero = FALSE
    /\ dblFree = FALSE
    /\ run = 1
    /\ nHeaderIter = 0 /\ nFrameIter = 0

Init == InitOn(Inputs)

InitSelect == InitOn(SelectInputs)

cursorVars == <<ofs, size>>
configVars == <<mColorFormat, mNumCores, readIdx, run>>
geomVars == <<mWidth, mHeight>>
bufVars == <<mOutBufHandle, heap, codecMem, nAlloc, dblFree>>
decVars == <<dec_ip, dec_op, lastResp>>
iterVars == <<nSubmit, nReset, sawZero>>
countVars == <<nCreate, nDelete, createRet>>
loopVars == <<nHeaderIter, nFrameIter>>
headerVars == <<hdrOfs, hdrSize>>

\* one call of ivd_api_function with command cmd
ApiCall(cmd) ==
    /\ lastCall' = cmd
    /\ nCalls' = nCalls + 1

NoCall == UNCHANGED <<lastCall, nCalls>>

----------------------------------------------------------------------------
(* LLVMFuzzerTestOneInput, up to the decode loops *)

\* the size test made only after the session was constructed and destroyed
ReturnEmptyAfterSession ==
    /\ pc = "start"
    /\ size < 1
    /\ pc' = "done"
    /\ codecObj' = "deleted"
    /\ NoCall
    /\ UNCHANGED loopVars
    /\ UNCHANGED headerVars
    /\ UNCHANGED <<data, cursorVars, configVars, mCodec, geomVars,
                   bufVars, decVars, mode, countVars, iterVars>>

\* if (size < 1) return 0;
ReturnEmpty ==
    /\ pc = "start"
    /\ size < 1
    /\ pc' = "done"
    /\ NoCall
    /\ UNCHANGED loopVars
    /\ UNCHANGED headerVars
    /\ UNCHANGED <<data, cursorVars, codecObj, configVars, mCodec, geomVars,
                   bufVars, decVars, mode, countVars, iterVars>>

\* the configuration selection and new Codec(colorFormat, numCores)
NewCodec ==
    /\ pc = "start"
    /\ ~(size < 1)
    /\ readIdx' = SelectReads(data)
    /\ mColorFormat' = SelectColorFormat(data)
    /\ mNumCores' = SelectNumCores(data)
    /\ codecObj' = "live"
    /\ mCodec' = NULL
    /\ mWidth' = 0
    /\ mHeight' = 0
    /\ mOutBufHandle' = ZeroBuf
    /\ pc' = "createCodec"
    /\ NoCall
    /\ UNCHANGED loopVars
    /\ UNCHANGED headerVars
    /\ UNCHANGED codecMem
    /\ UNCHANGED <<data, cursorVars, heap, nAlloc, dblFree, run, decVars, mode,
                   countVars, iterVars>>

\* Codec::createCodec: the create call; the handle is stored only on IV_SUCCESS.
\* While it serves the call the decoder takes memory through the
\* pf_aligned_alloc it was given, and any of these calls may return NULL.  A
\* decoder that got all of it may succeed, and then holds it until the delete
\* call; one that fails gives back through pf_aligned_free what it got
CreateCodec ==
    /\ pc = "createCodec"
    /\ \E ret \in {"IV_SUCCESS", "IV_FAIL"}, ok \in CodecAllocOutcomes :
          LET got == Buffers(IvAlignedMallocs(1, ok, heap))
          IN  /\ ret = "IV_SUCCESS" => \A i \in 1..Len(ok) : ok[i]
              /\ createRet' = ret
              /\ mCodec' = IF ret # "IV_SUCCESS" THEN mCodec ELSE HANDLE
              /\ IF ret = "IV_SUCCESS"
                 THEN /\ codecMem' = got
                      /\ heap' = heap \cup got
                 ELSE /\ codecMem' = {}
                      /\ heap' = IvAlignedFree(heap \cup got, got)
    /\ ApiCall("CREATE")
    /\ nCreate' = nCreate + 1
    /\ pc' = "setCores"
    /\ UNCHANGED loopVars
    /\ UNCHANGED headerVars
    /\ UNCHANGED <<data, cursorVars, codecObj, configVars, geomVars, mOutBufHandle,
                   nAlloc, dblFree,
                   decVars, mode, nDelete, iterVars>>

\* Codec::setCores
SetCores ==
    /\ pc = "setCores"
    /\ ApiCall("SET_NUM_CORES")
    /\ pc' = "setParamsHeader"
    /\ UNCHANGED loopVars
    /\ UNCHANGED headerVars
    /\ UNCHANGED <<data, cursorVars, codecObj, configVars, mCodec, geomVars,
                   bufVars, decVars, mode, countVars, iterVars>>

----------------------------------------------------------------------------
(* Codec::decodeHeader *)

\* decodeHeader(data, size) is entered with its own copies of the caller's
\* data and size; setParams(IVD_DECODE_HEADER)
SetParamsHeader ==
    /\ pc = "setParamsHeader"
    /\ ApiCall("SETPARAMS")
    /\ mode' = "IVD_DECODE_HEADER"
    /\ pc' = "headerLoop"
    /\ UNCHANGED loopVars
    /\ hdrOfs' = ofs
    /\ hdrSize' = size
    /\ UNCHANGED <<data, cursorVars, codecObj, configVars, mCodec, geomVars,
                   bufVars, decVars, countVars, iterVars>>

\* the loop test succeeds; dec_ip and dec_op are filled and the decode call made
HeaderSubmit ==
    /\ pc = "headerLoop"
    /\ HeaderLoopCond(hdrSize)
    /\ dec_ip' = [ofs |-> hdrOfs, u4_num_Bytes |-> hdrSize, s_out_buffer |-> ZeroBuf]
    /\ \E op \in DecOps :
          /\ dec_op' = op
          /\ lastResp' = op
          /\ sawZero' = (op.u4_num_bytes_consumed = 0)
    /\ ApiCall("DECODE")
    /\ nSubmit' = 1
    /\ pc' = "headerFinish"
    /\ nHeaderIter' = nHeaderIter + 1
    /\ UNCHANGED nFrameIter
    /\ UNCHANGED headerVars
    /\ UNCHANGED <<data, cursorVars, codecObj, configVars, mCodec, geomVars,
                   bufVars, mode, countVars, nReset>>

\* HeaderFinish advancing the data and size of LLVMFuzzerTestOneInput as well,
\* as if decodeHeader took them by reference
HeaderFinishSharedCursor ==
    /\ pc = "headerFinish"
    /\ LET adv == Advance(dec_op.u4_num_bytes_consumed, hdrSize)
           w == Clamp(dec_op.u4_pic_wd)
           h == Clamp(dec_op.u4_pic_ht)
       IN  /\ hdrOfs' = hdrOfs + adv
           /\ hdrSize' = hdrSize - adv
           /\ ofs' = ofs + adv
           /\ size' = size - adv
           /\ mWidth' = w
           /\ mHeight' = h
           /\ pc' = IF w # 0 /\ h # 0 THEN "headerDefaults" ELSE "headerLoop"
    /\ dec_ip' = ZeroIp
    /\ dec_op' = ZeroOp
    /\ lastResp' = ZeroOp
    /\ nSubmit' = 0
    /\ sawZero' = FALSE
    /\ NoCall
    /\ UNCHANGED loopVars
    /\ UNCHANGED <<data, codecObj, configVars, mCodec, bufVars, mode,
                   countVars, nReset>>

\* the rest of the loop body: advance decodeHeader's data and size, store the
\* clamped geometry, break or loop
HeaderFinish ==
    /\ pc = "headerFinish"
    /\ LET adv == Advance(dec_op.u4_num_bytes_consumed, hdrSize)
           w == Clamp(dec_op.u4_pic_wd)
           h == Clamp(dec_op.u4_pic_ht)
       IN  /\ hdrOfs' = hdrOfs + adv
           /\ hdrSize' = hdrSize - adv
           /\ mWidth' = w
           /\ mHeight' = h
           /\ pc' = IF w # 0 /\ h # 0 THEN "headerDefaults" ELSE "headerLoop"
    /\ dec_ip' = ZeroIp
    /\ dec_op' = ZeroOp
    /\ lastResp' = ZeroOp
    /\ nSubmit' = 0
    /\ sawZero' = FALSE
    /\ NoCall
    /\ UNCHANGED loopVars
    /\ UNCHANGED <<data, cursorVars, codecObj, configVars, mCodec, bufVars, mode,
                   countVars, nReset>>

\* the loop test fails
HeaderLoopExit ==
    /\ pc = "headerLoop"
    /\ ~HeaderLoopCond(hdrSize)
    /\ pc' = "headerDefaults"
    /\ NoCall
    /\ UNCHANGED loopVars
    /\ UNCHANGED headerVars
    /\ UNCHANGED <<data, cursorVars, codecObj, configVars, mCodec, geomVars,
                   bufVars, decVars, mode, countVars, iterVars>>

\* if (!mWidth) mWidth = 1920; if (!mHeight) mHeight = 1088; and the return,
\* at which decodeHeader's data and size cease to exist
HeaderDefaults ==
    /\ pc = "headerDefaults"
    /\ mWidth' = IF mWidth = 0 THEN DEFAULT_WIDTH ELSE mWidth
    /\ mHeight' = IF mHeight = 0 THEN DEFAULT_HEIGHT ELSE mHeight
    /\ pc' = "setParamsFrame"
    /\ NoCall
    /\ UNCHANGED loopVars
    /\ hdrOfs' = 0
    /\ hdrSize' = 0
    /\ UNCHANGED <<data, cursorVars, codecObj, configVars, mCodec, bufVars,
                   decVars, mode, countVars, iterVars>>

----------------------------------------------------------------------------
(* setParams(IVD_DECODE_FRAME) and the first allocFrame *)

SetParamsFrame ==
    /\ pc = "setParamsFrame"
    /\ ApiCall("SETPARAMS")
    /\ mode' = "IVD_DECODE_FRAME"
    /\ pc' = "allocFrame"
    /\ UNCHANGED loopVars
    /\ UNCHANGED headerVars
    /\ UNCHANGED <<data, cursorVars, codecObj, configVars, mCodec, geomVars,
                   bufVars, decVars, countVars, iterVars>>

FirstAllocFrame ==
    /\ pc = "allocFrame"
    /\ \E ok \in AllocOutcomes(mColorFormat) :
          LET r == AllocFrame(mColorFormat, mWidth, mHeight, mOutBufHandle, heap, ok)
          IN  /\ mOutBufHandle' = r[1]
              /\ heap' = r[2]
    /\ dblFree' = (dblFree \/ BadFree(heap, mOutBufHandle))
    /\ nAlloc' = nAlloc + 1
    /\ pc' = "frameLoop"
    /\ NoCall
    /\ UNCHANGED loopVars
    /\ UNCHANGED headerVars
    /\ UNCHANGED codecMem
    /\ UNCHANGED <<data, cursorVars, codecObj, configVars, mCodec, geomVars,
                   decVars, mode, countVars, iterVars>>

----------------------------------------------------------------------------
(* The frame loop of LLVMFuzzerTestOneInput and Codec::decodeFrame *)

\* the loop test succeeds; decodeFrame fills dec_ip (with the output buffers)
\* and dec_op and makes the first decode call
FrameSubmit ==
    /\ pc = "frameLoop"
    /\ FrameLoopCond(size)
    /\ dec_ip' = [ofs |-> ofs, u4_num_Bytes |-> size, s_out_buffer |-> mOutBufHandle]
    /\ \E op \in DecOps :
          /\ dec_op' = op
          /\ lastResp' = op
          /\ sawZero' = (op.u4_num_bytes_consumed = 0)
          /\ pc' = IF IsResChanged(op.u4_error_code) THEN "resetCodec"
                   ELSE "frameFinish"
    /\ ApiCall("DECODE")
    /\ nSubmit' = 1
    /\ nReset' = 0
    /\ nFrameIter' = nFrameIter + 1
    /\ UNCHANGED nHeaderIter
    /\ UNCHANGED headerVars
    /\ UNCHANGED <<data, cursorVars, codecObj, configVars, mCodec, geomVars,
                   bufVars, mode, countVars>>

\* ResetCodec done as a delete call followed by a create call
ResetByRecreate ==
    /\ pc = "resetCodec"
    /\ lastCall' = "CREATE"
    /\ nCalls' = nCalls + 2
    /\ nDelete' = nDelete + 1
    /\ nCreate' = nCreate + 1
    /\ nReset' = nReset + 1
    /\ pc' = "resubmit"
    /\ UNCHANGED loopVars
    /\ UNCHANGED headerVars
    /\ UNCHANGED <<data, cursorVars, codecObj, configVars, mCodec, geomVars,
                   bufVars, decVars, mode, createRet, nSubmit, sawZero>>

\* Codec::resetCodec, called when the first call reported a resolution change
ResetCodec ==
    /\ pc = "resetCodec"
    /\ ApiCall("RESET")
    /\ nReset' = nReset + 1
    /\ pc' = "resubmit"
    /\ UNCHANGED loopVars
    /\ UNCHANGED headerVars
    /\ UNCHANGED <<data, cursorVars, codecObj, configVars, mCodec, geomVars,
                   bufVars, decVars, mode, countVars, nSubmit, sawZero>>

\* the second decode call writing to an output structure of its own, dec_op
\* keeping what the first call wrote
FrameResubmitOwnOutput ==
    /\ pc = "resubmit"
    /\ \E op \in DecOps :
          /\ dec_op' = dec_op
          /\ lastResp' = op
          /\ sawZero' = (sawZero \/ op.u4_num_bytes_consumed = 0)
    /\ ApiCall("DECODE")
    /\ nSubmit' = nSubmit + 1
    /\ pc' = "frameFinish"
    /\ UNCHANGED loopVars
    /\ UNCHANGED headerVars
    /\ UNCHANGED <<data, cursorVars, codecObj, configVars, mCodec, geomVars,
                   bufVars, dec_ip, mode, countVars, nReset>>

\* the second decode call, with the same dec_ip; its output replaces dec_op
FrameResubmit ==
    /\ pc = "resubmit"
    /\ \E op \in DecOps :
          /\ dec_op' = op
          /\ lastResp' = op
          /\ sawZero' = (sawZero \/ op.u4_num_bytes_consumed = 0)
    /\ ApiCall("DECODE")
    /\ nSubmit' = nSubmit + 1
    /\ pc' = "frameFinish"
    /\ UNCHANGED loopVars
    /\ UNCHANGED headerVars
    /\ UNCHANGED <<data, cursorVars, codecObj, configVars, mCodec, geomVars,
                   bufVars, dec_ip, mode, countVars, nReset>>

\* the rest of decodeFrame (bytesConsumed, the geometry test and allocFrame)
\* and the rest of the loop body (the advance)
FrameFinish ==
    /\ pc = "frameFinish"
    /\ LET adv == Advance(dec_op.u4_num_bytes_consumed, size)
       IN  /\ ofs' = ofs + adv
           /\ size' = size - adv
    /\ IF GeomDiffers(mWidth, mHeight, dec_op)
       THEN LET w == Clamp(dec_op.u4_pic_wd)
                h == Clamp(dec_op.u4_pic_ht)
            IN  /\ mWidth' = w
                /\ mHeight' = h
                /\ \E ok \in AllocOutcomes(mColorFormat) :
                      LET r == AllocFrame(mColorFormat, w, h, mOutBufHandle, heap, ok)
                      IN  /\ mOutBufHandle' = r[1]
                          /\ heap' = r[2]
                /\ dblFree' = (dblFree \/ BadFree(heap, mOutBufHandle))
                /\ nAlloc' = nAlloc + 1
       ELSE UNCHANGED <<geomVars, bufVars>>
    /\ dec_ip' = ZeroIp
    /\ dec_op' = ZeroOp
    /\ lastResp' = ZeroOp
    /\ nSubmit' = 0
    /\ nReset' = 0
    /\ sawZero' = FALSE
    /\ pc' = "frameLoop"
    /\ NoCall
    /\ UNCHANGED loopVars
    /\ UNCHANGED headerVars
    /\ UNCHANGED codecMem
    /\ UNCHANGED <<data, codecObj, configVars, mCodec, mode, countVars>>

----------------------------------------------------------------------------
(* The end of LLVMFuzzerTestOneInput *)

\* the loop test fails; codec->freeFrame()
FreeFrame ==
    /\ pc = "frameLoop"
    /\ ~FrameLoopCond(size)
    /\ mOutBufHandle' = FreedHandle(mOutBufHandle)
    /\ heap' = FreedHeap(heap, mOutBufHandle)
    /\ dblFree' = (dblFree \/ BadFree(heap, mOutBufHandle))
    /\ pc' = "deleteCodec"
    /\ NoCall
    /\ UNCHANGED <<loopVars, headerVars, codecMem, nAlloc, data, cursorVars, codecObj, configVars, mCodec, geomVars,
                   decVars, mode, countVars, iterVars>>

\* Codec::deleteCodec: the decoder gives back through pf_aligned_free what it
\* took
DeleteCodec ==
    /\ pc = "deleteCodec"
    /\ ApiCall("DELETE")
    /\ nDelete' = nDelete + 1
    /\ heap' = IvAlignedFree(heap, codecMem)
    /\ codecMem' = {}
    /\ pc' = "delete"
    /\ UNCHANGED loopVars
    /\ UNCHANGED headerVars
    /\ UNCHANGED <<data, cursorVars, codecObj, configVars, mCodec, geomVars,
                   mOutBufHandle, nAlloc, dblFree, decVars, mode, nCreate, createRet, iterVars>>

\* delete codec; return 0;
DeleteObject ==
    /\ pc = "delete"
    /\ codecObj' = "deleted"
    /\ pc' = "done"
    /\ NoCall
    /\ UNCHANGED loopVars
    /\ UNCHANGED headerVars
    /\ UNCHANGED <<data, cursorVars, configVars, mCodec, geomVars, bufVars,
                   decVars, mode, countVars, iterVars>>

----------------------------------------------------------------------------

Next ==
    \/ ReturnEmpty
    \/ NewCodec
    \/ CreateCodec
    \/ SetCores
    \/ SetParamsHeader
    \/ HeaderSubmit
    \/ HeaderFinish
    \/ HeaderLoopExit
    \/ HeaderDefaults
    \/ SetParamsFrame
    \/ FirstAllocFrame
    \/ FrameSubmit
    \/ ResetCodec
    \/ FrameResubmit
    \/ FrameFinish
    \/ FreeFrame
    \/ DeleteCodec
    \/ DeleteObject

Spec == Init /\ [][Next]_vars

\* the driver is one thread that runs to its return: every call returns
FairSpec == Spec /\ WF_vars(Next)

\* LLVMFuzzerTestOneInput has returned and is entered again with the same
\* input: the locals and the counts of the calls start over, the memory is
\* as the invocation before left it
Reinvoke ==
    /\ pc = "done"
    /\ run < MaxRuns
    /\ run' = run + 1
    /\ pc' = "start"
    /\ ofs' = 0
    /\ size' = Len(data)
    /\ codecObj' = "none"
    /\ mode' = "NONE"
    /\ lastCall' = "NONE"
    /\ nCalls' = 0
    /\ nCreate' = 0
    /\ nDelete' = 0
    /\ createRet' = "none"
    /\ nAlloc' = 0
    /\ readIdx' = {}
    /\ nHeaderIter' = 0
    /\ nFrameIter' = 0
    /\ UNCHANGED headerVars
    /\ UNCHANGED codecMem
    /\ UNCHANGED <<data, mColorFormat, mNumCores, mCodec, geomVars,
                   mOutBufHandle, heap, dblFree, decVars, iterVars>>

NextTwice ==
    \/ Next
    \/ Reinvoke

\* the harness entered MaxRuns times in a row with one input
SpecTwice == Init /\ [][NextTwice]_vars

\* the layouts allocFrame is applied to on its own: the six of the table and
\* one IV_COLOR_FORMAT_T value its switch has no case for
AllocLayouts ==
    {supportedColorFormats[i] : i \in 1..kSupportedColorFormats}
        \cup {"IV_YUV_422P"}

\* the widths and heights allocFrame is applied to on its own
DimVals == {0, 1, 2, 3, 16, DEFAULT_HEIGHT, DEFAULT_WIDTH, MAX_DIM - 1, MAX_DIM}

\* a Codec object of some layout and geometry, about to run allocFrame
InitAlloc ==
    /\ data = <<>>
    /\ ofs = 0
    /\ size = 0
    /\ hdrOfs = 0
    /\ hdrSize = 0
    /\ pc = "allocFrame"
    /\ codecObj = "live"
    /\ mColorFormat \in AllocLayouts
    /\ mNumCores = 1
    /\ mCodec = HANDLE
    /\ mWidth \in DimVals
    /\ mHeight \in DimVals
    /\ mOutBufHandle = ZeroBuf
    /\ heap = {}
    /\ codecMem = {}
    /\ nAlloc = 0
    /\ dec_ip = ZeroIp
    /\ dec_op = ZeroOp
    /\ lastResp = ZeroOp
    /\ mode = "IVD_DECODE_FRAME"
    /\ lastCall = "SETPARAMS"
    /\ nCalls = 0
    /\ nCreate = 0
    /\ nDelete = 0
    /\ createRet = "IV_SUCCESS"
    /\ readIdx = {}
    /\ nSubmit = 0
    /\ nReset = 0
    /\ sawZero = FALSE
    /\ dblFree = FALSE
    /\ run = 1
    /\ nHeaderIter = 0 /\ nFrameIter = 0

\* allocFrame alone, on every layout and geometry of AllocLayouts and DimVals
SpecAlloc == InitAlloc /\ [][FirstAllocFrame]_vars

\* the configuration selection alone, on its own inputs
NextSelect ==
    \/ ReturnEmpty
    \/ NewCodec

SpecSelect == InitSelect /\ [][NextSelect]_vars

----------------------------------------------------------------------------
(* Properties *)

\* the session is over: buffers freed, the decoder deleted, the Codec deleted
Finalized ==
    /\ pc = "done"
    /\ codecObj = "deleted"
    /\ nDelete = 1
    /\ LivePtrs(mOutBufHandle) = {}

\* the output buffers that are allocated: all that memalign gave but what the
\* decoder took for itself
PlaneHeap == heap \ codecMem

\* decodeHeader is running: its data and size are the cursor of the loop
InHeader == pc \in {"headerLoop", "headerFinish", "headerDefaults"}

\* the data (minus the buffer start) and the size of the running function
CurOfs == IF InHeader THEN hdrOfs ELSE ofs
CurSize == IF InHeader THEN hdrSize ELSE size

\* C1: for every input of length >= 1 and whatever the decoder returns, the
\* session reaches the finalized state; the number of decoder calls never
\* exceeds 4 * length + 5 (one per header iteration, three per frame iteration,
\* five around the loops); and every iteration of the header loop and of the
\* frame loop strictly decreases the remaining length of its loop.
C1_TerminatesWithinLinearCalls ==
    /\ <>(Len(data) >= 1 => Finalized)
    /\ [](nCalls <= 4 * Len(data) + 5)
    /\ [][(pc \in {"headerFinish", "frameFinish"}) => (CurSize > CurSize')]_vars

\* C1 witness: a session on a 4-byte input is finalized after 13 calls: create,
\* set cores, set params, two header decodes, set params, two frame iterations
\* of decode, reset, decode, and delete
C1_Witness ==
    /\ Finalized
    /\ Len(data) = 4
    /\ nHeaderIter = 2
    /\ nFrameIter = 2
    /\ nCalls = 13

\* C2: after a failed create call no further decoder call is issued.
C2_NoCallAfterFailedCreate ==
    createRet = "IV_FAIL" => (lastCall = "CREATE" /\ nCalls = 1)

\* C3: a session on an input of length >= 1 issues exactly one create call,
\* and when the create succeeded exactly one delete call: never more than one
\* of either, the create issued once createCodec is passed, the delete issued
\* once the session has returned.
C3_OneCreateOneDelete ==
    /\ nCreate <= 1
    /\ nDelete <= 1
    /\ (pc \notin {"start", "createCodec"} /\ Len(data) >= 1) => nCreate = 1
    /\ (pc = "done" /\ Len(data) >= 1 /\ createRet = "IV_SUCCESS") => nDelete = 1
    /\ (pc \notin {"delete", "done"}) => nDelete = 0

\* C3 witness: a session whose create succeeded has returned after resets
\* (11 calls on at most 4 bytes need one) and buffer reallocations
C3_Witness ==
    /\ pc = "done"
    /\ createRet = "IV_SUCCESS"
    /\ nCreate = 1
    /\ nDelete = 1
    /\ nCalls >= 11
    /\ nAlloc >= 3

\* a step that issues a call of command cmd
CallStep(cmd) == nCalls' > nCalls /\ lastCall' = cmd

\* a step that ends a loop iteration: the cursor of the loop moves
IterationEnd == pc \in {"headerFinish", "frameFinish"}

\* C4 as stated: when any decode call of an iteration, the first call of a
\* resubmitted chunk included, reports 0 bytes consumed, the iteration moves
\* the cursor by min(4, remaining) and shrinks the remaining length by as much;
\* otherwise it moves it by min(bytes consumed, remaining).
C4_AdvanceByAnyResponse ==
    [][IterationEnd =>
         /\ sawZero => CurOfs' - CurOfs = Min(4, CurSize)
         /\ ~sawZero =>
                CurOfs' - CurOfs = Min(dec_op.u4_num_bytes_consumed, CurSize)
         /\ CurSize - CurSize' = CurOfs' - CurOfs]_vars

\* C4 amended: the advance of an iteration is decided by the response the
\* iteration ends with (the resubmission's after a reset): min(4, remaining)
\* when it reports 0 bytes, min(bytes consumed, remaining) otherwise, and the
\* remaining length shrinks by the same amount.
C4_AdvanceByLastResponse ==
    [][IterationEnd =>
         /\ dec_op.u4_num_bytes_consumed = 0 =>
                CurOfs' - CurOfs = Min(4, CurSize)
         /\ dec_op.u4_num_bytes_consumed > 0 =>
                CurOfs' - CurOfs = Min(dec_op.u4_num_bytes_consumed, CurSize)
         /\ CurSize - CurSize' = CurOfs' - CurOfs
         /\ CurOfs' + CurSize' = Len(data)]_vars

\* C4 witness: a frame iteration is about to advance on a resubmission that
\* consumed bytes, after a first call that consumed none, where the two
\* advances differ
C4_Witness ==
    /\ pc = "frameFinish"
    /\ nSubmit = 2
    /\ sawZero
    /\ dec_op.u4_num_bytes_consumed > 0
    /\ Min(dec_op.u4_num_bytes_consumed, size) # Min(4, size)

\* the response in dec_op signals a resolution change in its low byte
LowByteResChanged == (dec_op.u4_error_code % 256) = 42

\* C5: in the frame loop a response whose low byte is the resolution change
\* code is followed by one reset and one resubmission of the same pointer and
\* length before the cursor moves; the outcome of the resubmission is never
\* followed by a reset or a third submission; no reset is issued otherwise,
\* and none in the header loop.
C5_ResetAndResubmitOnce ==
    /\ [](nSubmit <= 2 /\ nReset <= 1 /\ nReset <= nSubmit)
    /\ [][/\ CallStep("RESET") =>
                /\ mode = "IVD_DECODE_FRAME"
                /\ nSubmit = 1 /\ nReset = 0
                /\ LowByteResChanged
          /\ (mode = "IVD_DECODE_FRAME" /\ nSubmit = 1 /\ nReset = 0
                /\ LowByteResChanged) => CallStep("RESET")
          /\ (nSubmit = 1 /\ nReset = 1) =>
                /\ CallStep("DECODE")
                /\ dec_ip' = dec_ip
                /\ dec_ip.ofs = ofs /\ dec_ip.u4_num_Bytes = size
                /\ UNCHANGED <<ofs, size>>
          /\ nSubmit = 2 => (nCalls' = nCalls /\ ofs' > ofs)
          /\ (mode = "IVD_DECODE_FRAME" /\ ofs' # ofs) => nSubmit = 1 + nReset
         ]_vars

\* C5 witness: the resubmission after a reset reports a resolution change again
C5_Witness ==
    /\ pc = "frameFinish"
    /\ nSubmit = 2
    /\ nReset = 1
    /\ LowByteResChanged
    /\ dec_op.u4_error_code # 42

\* the plane sizes of the layout catalog (IV_YUV_420P is Planar420,
\* IV_YUV_420SP_UV and _VU are SemiPlanar420, IV_YUV_422ILE is Packed422)
PlaneSizes(layout, w, h) ==
    IF layout \in {"IV_YUV_420SP_UV", "IV_YUV_420SP_VU"}
    THEN <<w * h, (w * h) \div 2>>
    ELSE IF layout \in {"IV_YUV_422ILE", "IV_RGB_565"} THEN <<2 * w * h>>
    ELSE IF layout = "IV_RGBA_8888" THEN <<4 * w * h>>
    ELSE <<w * h, (w * h) \div 4, (w * h) \div 4>>

\* the buffer set h is the one of layout and geometry w x h0, and nothing
\* else is allocated
SizedFor(h, layout, w, h0, hp) ==
    /\ h.u4_num_bufs = Len(PlaneSizes(layout, w, h0))
    /\ h.u4_min_out_buf_size = PlaneSizes(layout, w, h0)
    /\ Len(h.pu1_bufs) = h.u4_num_bufs
    /\ hp = LivePtrs(h)

\* the response in dec_op reports a geometry other than the session's
ReportDiffers == dec_op.u4_pic_wd # mWidth \/ dec_op.u4_pic_ht # mHeight

InFrameLoop == pc \in {"frameLoop", "resetCodec", "resubmit", "frameFinish"}

\* C6 amended: when the response a frame iteration ends with (the
\* resubmission's after a reset) reports a width or height other than the
\* session's, the iteration releases the buffers and allocates the set of
\* PlaneSizes(layout, min(width, 10240), min(height, 10240)) before the next
\* decode call; every frame decode call carries the descriptors of the
\* session's buffers, sized for the geometry at the time of the call.
C6_ReallocBeforeNextIteration ==
    /\ [](InFrameLoop =>
            SizedFor(mOutBufHandle, mColorFormat, mWidth, mHeight, PlaneHeap))
    /\ [](InFrameLoop /\ nSubmit >= 1 => dec_ip.s_out_buffer = mOutBufHandle)
    /\ [][(pc = "frameFinish" /\ ReportDiffers) =>
            /\ nAlloc' = nAlloc + 1
            /\ nCalls' = nCalls
            /\ mWidth' = Min(dec_op.u4_pic_wd, 10240)
            /\ mHeight' = Min(dec_op.u4_pic_ht, 10240)
            /\ SizedFor(mOutBufHandle', mColorFormat, mWidth', mHeight',
                        PlaneHeap')
         ]_vars

\* C6 as stated: the same for every frame decode response, the first response
\* of a resubmitted chunk included: no decode call is issued while a response
\* that reports another geometry has not been followed by the reallocation.
C6_ReallocAfterAnyResponse ==
    /\ C6_ReallocBeforeNextIteration
    /\ [][(InFrameLoop /\ nSubmit >= 1 /\ ReportDiffers) => ~CallStep("DECODE")]_vars

\* C6 witness: the frame loop goes on after an iteration reallocated the
\* buffers for a clamped width
C6_Witness ==
    /\ pc = "frameLoop"
    /\ size > 0
    /\ nAlloc >= 2
    /\ mWidth = 10240
    /\ PlaneHeap # {}

\* C7: whenever allocFrame runs, in the session set-up or in a frame iteration,
\* the width and height it sizes the buffers from are at most 10240.
C7_ClampedAtEveryAlloc ==
    [][nAlloc' > nAlloc => (mWidth' <= 10240 /\ mHeight' <= 10240)]_vars

\* C7 witness: allocFrame has run in a frame iteration on a width the decoder
\* reported above the maximum
C7_Witness ==
    /\ nAlloc >= 2
    /\ mWidth = 10240
    /\ mHeight = 10240
    /\ mOutBufHandle.u4_min_out_buf_size[1] >= 10240 * 10240

\* C8: from the end of header discovery to the end of the session the width
\* and height are both nonzero.
C8_GeometryNonzeroAfterHeader ==
    pc \in {"setParamsFrame", "allocFrame", "frameLoop", "resetCodec",
            "resubmit", "frameFinish", "deleteCodec", "delete"}
        => (mWidth # 0 /\ mHeight # 0)

\* C9: on an input of length n >= 1 the selection reads the indices
\* min(6, n-1) and min(7, n-1) and no other, none past n-1; the layout is
\* supportedColorFormats[input[min(6, n-1)] mod 6], the worker count is
\* (input[min(7, n-1)] mod 4) + 1, in 1..4; for n = 7 both reads are of index 6.
C9_SelectionReadsClampedOffsets ==
    (pc # "start" /\ Len(data) >= 1) =>
        LET n == Len(data)
            i6 == IF n - 1 < 6 THEN n - 1 ELSE 6
            i7 == IF n - 1 < 7 THEN n - 1 ELSE 7
        IN  /\ readIdx = {i6, i7}
            /\ \A i \in readIdx : i >= 0 /\ i <= n - 1
            /\ mColorFormat = supportedColorFormats[(data[i6 + 1] % 6) + 1]
            /\ mNumCores = (data[i7 + 1] % 4) + 1
            /\ mNumCores \in 1..4
            /\ mColorFormat \in
                 {"IV_YUV_420P", "IV_YUV_420SP_UV", "IV_YUV_420SP_VU",
                  "IV_YUV_422ILE", "IV_RGB_565", "IV_RGBA_8888"}
            /\ n = 7 => readIdx = {6}

\* C9 witness: the selection has run on 7 zero bytes and read index 6 only
C9_Witness ==
    /\ pc = "createCodec"
    /\ data = [i \in 1..7 |-> 0]
    /\ readIdx = {6}
    /\ mColorFormat = "IV_YUV_420P"
    /\ mNumCores = 1

\* the driver is between the call of decodeHeader and the frame loop
BeforeFrameLoop ==
    pc \in {"setParamsHeader", "headerLoop", "headerFinish", "headerDefaults",
            "setParamsFrame", "allocFrame"}

\* C10 as stated: when header discovery has consumed the whole input nothing
\* is left for the frame loop, which runs no iteration; on the one-byte input
\* 0x00 no decode call is issued in frame mode and the buffers are released
\* with no frame iteration made.
C10_NoFrameIterationOnExhaustedInput ==
    /\ [](pc = "headerDefaults" /\ hdrSize = 0 => size = 0)
    /\ [][(data = <<0>> /\ mode = "IVD_DECODE_FRAME") => ~CallStep("DECODE")]_vars
    /\ [](data = <<0>> /\ pc = "deleteCodec" => nFrameIter = 0)

\* C10 amended: header discovery moves a cursor of its own, so whatever it
\* consumed the frame loop starts at offset 0 with the whole input and runs
\* at least one iteration; the frame loop issues no decode call once its own
\* remaining length is 0, and then the buffers are released.  On the
\* one-byte input 0x00 the header loop ends after one decode call with
\* nothing left of its copy; a response without geometry leaves (0, 0), the
\* defaults make it 1920 x 1088, the allocation is the one of Planar420 at
\* the session geometry, and the frame loop makes one iteration on the same
\* byte before the buffers are released.
C10_FrameLoopStartsOver ==
    /\ [][BeforeFrameLoop => (UNCHANGED <<ofs, size>>)]_vars
    /\ [](BeforeFrameLoop => (ofs = 0 /\ size = Len(data) /\ nFrameIter = 0))
    /\ [][(pc = "frameLoop" /\ nFrameIter = 0) =>
            /\ CallStep("DECODE")
            /\ mode = "IVD_DECODE_FRAME"
            /\ dec_ip'.ofs = 0
            /\ dec_ip'.u4_num_Bytes = Len(data)]_vars
    /\ [](pc \in {"deleteCodec", "delete"} => nFrameIter >= 1)
    /\ [][pc = "allocFrame" =>
            /\ pc' = "frameLoop" /\ nCalls' = nCalls
            /\ UNCHANGED <<mWidth, mHeight>>
            /\ mOutBufHandle'.u4_min_out_buf_size =
                   PlaneSizes(mColorFormat, mWidth, mHeight)]_vars
    /\ [][(pc = "frameLoop" /\ size = 0) =>
            /\ pc' = "deleteCodec" /\ nCalls' = nCalls
            /\ LivePtrs(mOutBufHandle') = {} /\ PlaneHeap' = {}]_vars
    /\ [][(mode = "IVD_DECODE_FRAME" /\ size = 0) => ~CallStep("DECODE")]_vars
    /\ [][(data = <<0>> /\ pc = "headerFinish") =>
            /\ hdrSize' = 0 /\ hdrOfs' = 1
            /\ (dec_op.u4_pic_wd = 0 /\ dec_op.u4_pic_ht = 0) =>
                   (mWidth' = 0 /\ mHeight' = 0 /\ pc' = "headerLoop")]_vars
    /\ [][(pc = "headerLoop" /\ hdrSize = 0) =>
            (pc' = "headerDefaults" /\ UNCHANGED <<mWidth, mHeight, nCalls>>)]_vars
    /\ [][(pc = "headerDefaults" /\ mWidth = 0 /\ mHeight = 0) =>
            (pc' = "setParamsFrame" /\ mWidth' = 1920 /\ mHeight' = 1088)]_vars
    /\ [][pc = "setParamsFrame" =>
            (pc' = "allocFrame" /\ UNCHANGED <<mWidth, mHeight>>)]_vars
    /\ [](data = <<0>> /\ pc \notin {"start", "createCodec"}
            => mColorFormat = "IV_YUV_420P")
    /\ [](data = <<0>> /\ pc = "deleteCodec" =>
            /\ nHeaderIter = 1
            /\ nFrameIter = 1
            /\ nCalls \in {6, 8})

\* C10 witness: on the one-byte input 0x00 the frame loop has made the decode
\* call of its one iteration, the sixth call of the session, on offset 0 and
\* 1 byte with the Planar420 buffers of 1920 x 1088, after the header loop
\* made one decode call and consumed the byte
C10_Witness ==
    /\ data = <<0>>
    /\ pc = "frameFinish"
    /\ nHeaderIter = 1
    /\ nFrameIter = 1
    /\ nCalls = 6
    /\ lastCall = "DECODE"
    /\ dec_ip.ofs = 0 /\ dec_ip.u4_num_Bytes = 1
    /\ mWidth = 1920 /\ mHeight = 1088
    /\ mOutBufHandle.u4_min_out_buf_size = <<2088960, 522240, 522240>>

\* C11: every invocation of the harness, the first and the one after it,
\* starts its session from the same fresh state (width and height 0, no output
\* buffer, no handle, nothing allocated, no call issued), which is why the
\* same responses give the same calls and allocations again; no free() is
\* ever called on a buffer that is not allocated; and when the invocation
\* returns no buffer is allocated and the Codec object is gone.
C11_FreshSessionAndFullRelease ==
    /\ ~dblFree
    /\ pc = "start" =>
          /\ heap = {} /\ codecObj = "none"
          /\ nCalls = 0 /\ nAlloc = 0 /\ lastCall = "NONE" /\ mode = "NONE"
          /\ ofs = 0 /\ size = Len(data)
    /\ pc = "createCodec" =>
          /\ mWidth = 0 /\ mHeight = 0
          /\ mOutBufHandle = ZeroBuf
          /\ mCodec = NULL
          /\ heap = {} /\ codecObj = "live"
          /\ nCalls = 0 /\ nAlloc = 0 /\ lastCall = "NONE" /\ mode = "NONE"
          /\ ofs = 0 /\ size = Len(data)
          /\ dec_ip = ZeroIp /\ dec_op = ZeroOp
          /\ nSubmit = 0 /\ nReset = 0 /\ ~sawZero
    /\ pc = "done" =>
          /\ heap = {}
          /\ LivePtrs(mOutBufHandle) = {}
          /\ codecObj = IF Len(data) >= 1 THEN "deleted" ELSE "none"

\* C11 witness: the second invocation has returned after a session that
\* reallocated the buffers
C11_Witness ==
    /\ run = 2
    /\ pc = "done"
    /\ nAlloc >= 2
    /\ heap = {}
    /\ codecObj = "deleted"

\* C12: on an input of length zero the harness returns at once: no Codec
\* object is constructed, no byte is read, no collaborator call is issued and
\* no buffer is allocated.
C12_EmptyInputIsNoOp ==
    Len(data) = 0 =>
        /\ pc \in {"start", "done"}
        /\ codecObj = "none"
        /\ readIdx = {}
        /\ nCalls = 0 /\ lastCall = "NONE" /\ mode = "NONE"
        /\ nCreate = 0 /\ nDelete = 0 /\ createRet = "none"
        /\ nAlloc = 0 /\ heap = {}
        /\ mOutBufHandle = ZeroBuf

\* C12 witness: the harness has returned on the empty input
C12_Witness ==
    /\ Len(data) = 0
    /\ pc = "done"

\* ceil(n / 4)
CeilDiv4(n) == (n + 3) \div 4

\* C13 as stated: every iteration of either loop moves the cursor by at least
\* 4 bytes, or by all that remains when fewer than 4 remain, so neither loop
\* runs more than ceil(n / 4) iterations on an input of n bytes.
C13_AtLeastFourPerIteration ==
    /\ [](/\ nHeaderIter <= CeilDiv4(Len(data))
          /\ nFrameIter <= CeilDiv4(Len(data)))
    /\ [][IterationEnd => (CurOfs' - CurOfs >= Min(MIN_ADVANCE, CurSize))]_vars

\* C13 amended: every iteration of either loop moves the cursor of its loop
\* by at least 1 byte, and by at least min(4, remaining) when the response it
\* ends with reports 0 or at least 4 bytes consumed; a report of 1 to 3 bytes
\* moves it by that many, so each loop runs at most n iterations on an input
\* of n bytes, one per byte its cursor has passed.
C13_AtLeastOnePerIteration ==
    /\ [](/\ nHeaderIter <= Len(data)
          /\ nFrameIter <= Len(data)
          /\ InHeader =>
                nHeaderIter <= hdrOfs + (IF pc = "headerFinish" THEN 1 ELSE 0)
          /\ nFrameIter
                 <= ofs + (IF pc \in {"frameFinish", "resetCodec", "resubmit"}
                           THEN 1 ELSE 0))
    /\ [][IterationEnd =>
            /\ CurOfs' - CurOfs >= 1
            /\ CurSize' = CurSize - (CurOfs' - CurOfs)
            /\ CurSize' >= 0
            /\ (dec_op.u4_num_bytes_consumed = 0
                  \/ dec_op.u4_num_bytes_consumed >= MIN_ADVANCE)
                 => CurOfs' - CurOfs >= Min(MIN_ADVANCE, CurSize)
            /\ dec_op.u4_num_bytes_consumed \in 1..(MIN_ADVANCE - 1)
                 => CurOfs' - CurOfs
                      = Min(dec_op.u4_num_bytes_consumed, CurSize)]_vars

\* C13 witness: the second iteration of the frame loop on an input of 4 bytes
\* ends, the first having moved the cursor by 3 bytes with 4 remaining, after
\* a header loop of two iterations as well
C13_Witness ==
    /\ pc = "frameFinish"
    /\ Len(data) = 4
    /\ ofs = 3
    /\ nFrameIter = 2
    /\ nHeaderIter = 2
    /\ nFrameIter > CeilDiv4(Len(data))

\* C14 as stated: in every state the buffer set is either empty (no plane
\* buffer allocated) or holds one allocated buffer for each plane of the
\* layout, recorded with the sizes of the catalog for the session geometry;
\* and nothing but the buffers of the set is allocated, so no buffer of an
\* earlier set is live beside it.
C14_EmptyOrFullyPopulated ==
    /\ PlaneHeap = LivePtrs(mOutBufHandle)
    /\ \/ LivePtrs(mOutBufHandle) = {}
       \/ /\ SizedFor(mOutBufHandle, mColorFormat, mWidth, mHeight, PlaneHeap)
          /\ \A i \in 1..mOutBufHandle.u4_num_bufs :
                mOutBufHandle.pu1_bufs[i] # NULL
          /\ Cardinality(PlaneHeap) = mOutBufHandle.u4_num_bufs

\* the calls that may come right after a call, by the call and the mode the
\* decoder was last set to
CallsAfter(cmd, md) ==
    CASE cmd = "NONE" -> {"CREATE"}
      [] cmd = "CREATE" -> {"SET_NUM_CORES"}
      [] cmd = "SET_NUM_CORES" -> {"SETPARAMS"}
      [] cmd = "SETPARAMS" /\ md = "IVD_DECODE_HEADER" -> {"DECODE", "SETPARAMS"}
      [] cmd = "DECODE" /\ md = "IVD_DECODE_HEADER" -> {"DECODE", "SETPARAMS"}
      [] cmd = "SETPARAMS" /\ md = "IVD_DECODE_FRAME" -> {"DECODE", "DELETE"}
      [] cmd = "DECODE" /\ md = "IVD_DECODE_FRAME" -> {"DECODE", "RESET", "DELETE"}
      [] cmd = "RESET" -> {"DECODE"}
      [] OTHER -> {}

\* C15: in a session whose create call succeeded the calls come in the order
\* create, set-cores, set-params(header), header decodes with an empty
\* buffer descriptor, set-params(frame) once, then, the buffers having been
\* allocated, frame decodes carrying the current buffer descriptor and
\* resets, then, the buffers having been freed, delete; nothing follows
\* delete and no buffer is allocated before set-params(frame).
C15_CallOrder ==
    [][createRet' # "IV_FAIL" =>
         /\ nCalls' > nCalls =>
              /\ nCalls' = nCalls + 1
              /\ lastCall' \in CallsAfter(lastCall, mode)
              /\ lastCall' = "SETPARAMS" =>
                    mode' = (IF lastCall = "SET_NUM_CORES"
                             THEN "IVD_DECODE_HEADER" ELSE "IVD_DECODE_FRAME")
              /\ lastCall' # "SETPARAMS" => mode' = mode
              /\ (lastCall' = "DECODE" /\ mode = "IVD_DECODE_HEADER") =>
                    /\ dec_ip'.s_out_buffer = ZeroBuf
                    /\ nAlloc = 0
              /\ (lastCall' = "DECODE" /\ mode = "IVD_DECODE_FRAME") =>
                    /\ dec_ip'.s_out_buffer = mOutBufHandle
                    /\ mOutBufHandle' = mOutBufHandle
                    /\ nAlloc >= 1
              /\ lastCall' = "RESET" => nAlloc >= 1
              /\ lastCall' = "DELETE" =>
                    /\ nAlloc >= 1
                    /\ PlaneHeap = {}
                    /\ LivePtrs(mOutBufHandle) = {}
         /\ nAlloc' > nAlloc =>
              /\ mode = "IVD_DECODE_FRAME"
              /\ lastCall \in {"SETPARAMS", "DECODE"}
              /\ nAlloc = 0 => lastCall = "SETPARAMS"
         /\ lastCall = "DELETE" => (nCalls' = nCalls /\ nAlloc' = nAlloc)]_vars

\* C15 witness: delete has been called in a session that was created, made
\* two header decodes and one frame iteration with a reset and a resubmission
C15_Witness ==
    /\ lastCall = "DELETE"
    /\ createRet = "IV_SUCCESS"
    /\ nHeaderIter = 2
    /\ nFrameIter = 1
    /\ nCalls = 10

\* C16: for each of the six layouts and every width and height up to 10240,
\* 0 included, allocFrame records the plane count and the plane sizes of the
\* catalog: 3 planes [w*h, w*h/4, w*h/4] for IV_YUV_420P, 2 planes
\* [w*h, w*h/2] for the two semi-planar layouts, 1 plane [2*w*h] for
\* IV_YUV_422ILE and IV_RGB_565, 1 plane [4*w*h] for IV_RGBA_8888; a layout
\* the switch has no case for gets what IV_YUV_420P gets.
C16_SizesOfCatalog ==
    pc = "frameLoop" =>
        LET wh == mWidth * mHeight
            planes == mOutBufHandle.u4_num_bufs
        IN  /\ mOutBufHandle.u4_min_out_buf_size
                 = PlaneSizes(mColorFormat, mWidth, mHeight)
            /\ Len(mOutBufHandle.pu1_bufs) = planes
            /\ Len(mOutBufHandle.u4_min_out_buf_size) = planes
            /\ mColorFormat \in {"IV_YUV_420SP_UV", "IV_YUV_420SP_VU"}
                 => planes = 2
            /\ mColorFormat \in {"IV_YUV_422ILE", "IV_RGB_565", "IV_RGBA_8888"}
                 => planes = 1
            /\ mColorFormat \in {"IV_YUV_420P", "IV_YUV_422P"}
                 => /\ planes = 3
                    /\ mOutBufHandle.u4_min_out_buf_size
                         = <<wh, wh \div 4, wh \div 4>>

\* C16 witness: allocFrame has run on 10240 x 10240 with a layout its switch
\* has no case for and recorded the three planes of IV_YUV_420P
C16_Witness ==
    /\ pc = "frameLoop"
    /\ mColorFormat = "IV_YUV_422P"
    /\ mWidth = MAX_DIM
    /\ mHeight = MAX_DIM
    /\ mOutBufHandle.u4_min_out_buf_size = <<104857600, 26214400, 26214400>>

\* the largest value of a signed 32-bit integer, below 2^32
INT32_MAX == 2147483647

\* C19: at every allocation the width and the height are at most 10240, so
\* w*h, 2*w*h and 4*w*h are below 2^32 and the uint32_t results w*h,
\* w*h >> 1, w*h >> 2, w*h * 2 and w*h * 4 are the mathematical values; the
\* sizes recorded for the layout of the session are those values.
C19_NoWrapAtAlloc ==
    nAlloc >= 1 =>
        /\ mWidth <= MAX_DIM
        /\ mHeight <= MAX_DIM
        /\ LET wh == mWidth * mHeight
               wh32 == MulU32(ToU32(mWidth), ToU32(mHeight))
           IN  /\ wh <= MAX_DIM * MAX_DIM
               /\ 4 * wh <= INT32_MAX
               /\ wh32 = ToU32(wh)
               /\ ShrU32(wh32, 1) = ToU32(wh \div 2)
               /\ ShrU32(wh32, 2) = ToU32(wh \div 4)
               /\ MulU32(wh32, ToU32(2)) = ToU32(2 * wh)
               /\ MulU32(wh32, ToU32(4)) = ToU32(4 * wh)
               /\ mOutBufHandle.u4_min_out_buf_size =
                    CASE mColorFormat \in {"IV_YUV_420SP_UV", "IV_YUV_420SP_VU"}
                            -> <<wh, wh \div 2>>
                      [] mColorFormat \in {"IV_YUV_422ILE", "IV_RGB_565"}
                            -> <<2 * wh>>
                      [] mColorFormat = "IV_RGBA_8888" -> <<4 * wh>>
                      [] OTHER -> <<wh, wh \div 4, wh \div 4>>

\* C19 witness: the largest plane of all, IV_RGBA_8888 at 10240 x 10240, has
\* been allocated in a session whose decoder reported 10241 x 10240
C19_Witness ==
    /\ nAlloc >= 1
    /\ mColorFormat = "IV_RGBA_8888"
    /\ mWidth = MAX_DIM
    /\ mHeight = MAX_DIM
    /\ mOutBufHandle.u4_min_out_buf_size = <<419430400>>

\* the response in dec_op has a nonzero width and a nonzero height once clamped
FoundHeader == Min(dec_op.u4_pic_wd, MAX_DIM) # 0 /\ Min(dec_op.u4_pic_ht, MAX_DIM) # 0

\* C17: a header response with both clamped dimensions nonzero ends the
\* header loop with that clamped pair as the session geometry, and no header
\* decode is issued once the geometry is a nonzero pair; any other response
\* sends the loop on to a further decode call while input remains, and the
\* loop ends without a call when none remains; a last response of (0, 0)
\* leaves the geometry to become 1920 x 1088; at the first allocation both
\* dimensions are in 1..10240.
C17_HeaderLoopEndAndGeometry ==
    /\ [][pc = "headerFinish" =>
            IF FoundHeader
            THEN /\ pc' = "headerDefaults"
                 /\ mWidth' = Min(dec_op.u4_pic_wd, MAX_DIM)
                 /\ mHeight' = Min(dec_op.u4_pic_ht, MAX_DIM)
                 /\ nCalls' = nCalls
            ELSE /\ pc' = "headerLoop"
                 /\ (dec_op.u4_pic_wd = 0 /\ dec_op.u4_pic_ht = 0)
                       => (mWidth' = 0 /\ mHeight' = 0)]_vars
    /\ [][pc = "headerLoop" =>
            IF hdrSize > 0 THEN CallStep("DECODE") /\ mode' = "IVD_DECODE_HEADER"
            ELSE pc' = "headerDefaults" /\ nCalls' = nCalls
                   /\ UNCHANGED <<mWidth, mHeight>>]_vars
    /\ [][(CallStep("DECODE") /\ mode = "IVD_DECODE_HEADER") =>
            (hdrSize > 0 /\ ~(mWidth # 0 /\ mHeight # 0))]_vars
    /\ [][pc = "headerDefaults" =>
            /\ nCalls' = nCalls
            /\ (mWidth # 0 /\ mHeight # 0) => UNCHANGED <<mWidth, mHeight>>
            /\ (mWidth = 0 /\ mHeight = 0) =>
                  (mWidth' = DEFAULT_WIDTH /\ mHeight' = DEFAULT_HEIGHT)]_vars
    /\ [](pc \in {"setParamsFrame", "allocFrame"} =>
            /\ nAlloc = 0
            /\ mWidth \in 1..MAX_DIM
            /\ mHeight \in 1..MAX_DIM)

\* C17 witness: the first header response, 10241 x 10240 with 3 of 4 bytes
\* consumed, has ended the loop with input left and the geometry clamped
C17_Witness ==
    /\ pc = "headerDefaults"
    /\ nHeaderIter = 1
    /\ hdrSize > 0
    /\ mWidth = MAX_DIM
    /\ mHeight = MAX_DIM

\* C18: in a frame iteration that reset and resubmitted, the advance of the
\* cursor (with 4 for a report of 0) and the test and update of the geometry
\* are those of the answer to the resubmission alone; from the first call to
\* the end of the resubmission the cursor, the geometry and the buffers are
\* not touched, so what the first call reported changes nothing.
C18_OnlyResubmissionCounts ==
    /\ [][(pc = "frameFinish" /\ nSubmit = 2) =>
            LET consumed == lastResp.u4_num_bytes_consumed
                adv == IF consumed = 0 THEN Min(MIN_ADVANCE, size)
                       ELSE Min(consumed, size)
            IN  /\ ofs' = ofs + adv
                /\ size' = size - adv
                /\ IF lastResp.u4_pic_wd # mWidth \/ lastResp.u4_pic_ht # mHeight
                   THEN /\ mWidth' = Min(lastResp.u4_pic_wd, MAX_DIM)
                        /\ mHeight' = Min(lastResp.u4_pic_ht, MAX_DIM)
                        /\ nAlloc' = nAlloc + 1
                        /\ mOutBufHandle'.u4_min_out_buf_size =
                             PlaneSizes(mColorFormat, mWidth', mHeight')
                   ELSE (UNCHANGED <<mWidth, mHeight, mOutBufHandle, heap,
                                     nAlloc>>)]_vars
    /\ [][(pc \in {"resetCodec", "resubmit"}) =>
            (UNCHANGED <<ofs, size, mWidth, mHeight, mOutBufHandle, heap,
                         nAlloc, dec_ip>>)]_vars
    /\ [][pc = "resubmit" => (CallStep("DECODE") /\ dec_op' = lastResp')]_vars

\* C18 witness: an iteration whose first call reported 0 bytes consumed is
\* about to end on a resubmission that reported 3 bytes and 16 x 16, in a
\* session of another geometry with more than 3 bytes left
C18_Witness ==
    /\ pc = "frameFinish"
    /\ nSubmit = 2
    /\ nReset = 1
    /\ sawZero
    /\ lastResp.u4_num_bytes_consumed = 3
    /\ lastResp.u4_pic_wd = 16 /\ lastResp.u4_pic_ht = 16
    /\ mWidth # 16
    /\ size > 3

====
